---- MODULE Spec2Model ----
(***************************************************************************)
(* ePACT2 dashboard data compiler (app.py): local and national CSV tables  *)
(* are cleaned, merged per metric label, outer-joined into one wide table, *)
(* pivoted into one sheet per metric and written to one workbook.          *)
(*                                                                         *)
(* Representation.                                                         *)
(*  - A data frame is a sequence of rows (records), in pandas row order.   *)
(*  - A float percentage is an integer number of hundredths (50.0 is 5000),*)
(*    so that round(x, 2) is an integer rounding of an exact rational.     *)
(*  - A raw Month cell "Jan-24" is the pair <<"Jan", 24>>; a parsed month  *)
(*    is the integer year * 12 + (month - 1); NaT and NaN are -1, which no *)
(*    parsed month and no non-negative value equals.                       *)
(*  - A practice code is a tuple of one-character strings; the empty tuple *)
(*    is the missing cell (read_csv turns an empty cell into NaN).         *)
(***************************************************************************)
EXTENDS Integers, Sequences, FiniteSets, TLC

VARIABLES local_files, local_labels, national_files, national_labels,
          local_frames, all_metrics, merged_dfs, combined, pivots, output,
          shown, pc

vars == <<local_files, local_labels, national_files, national_labels,
          local_frames, all_metrics, merged_dfs, combined, pivots, output,
          shown, pc>>

(***************************************************************************)
(* Missing values                                                          *)
(***************************************************************************)
NaT == -1

NaN == -1

NoCode == <<>>

(***************************************************************************)
(* Generic helpers on sequences                                            *)
(***************************************************************************)
RECURSIVE SumOver(_, _)
SumOver(s, col) ==
    IF s = <<>> THEN 0
    ELSE (IF Head(s)[col] = NaN THEN 0 ELSE Head(s)[col]) + SumOver(Tail(s), col)

RECURSIVE Concat(_)
Concat(ss) == IF ss = <<>> THEN <<>> ELSE Head(ss) \o Concat(Tail(ss))

Range(s) == {s[i] : i \in DOMAIN s}

\* the elements of a finite set as a sequence ascending by rank[x]
RECURSIVE SortSet(_, _)
SortSet(S, rank) ==
    IF S = {} THEN <<>>
    ELSE LET m == CHOOSE x \in S : \A y \in S : rank[x] <= rank[y]
         IN  <<m>> \o SortSet(S \ {m}, rank)

(***************************************************************************)
(* Organisation names: the canonicalisation map and Python's string order  *)
(***************************************************************************)
RollupName == "North East and North Cumbria"

organisation_legend_mapping ==
    [o \in {"NHS NORTH EAST AND NORTH CUMBRIA ICB - 84H",
            "NHS NORTH EAST AND NORTH CUMBRIA ICB - 00P",
            "NHS NORTH EAST AND NORTH CUMBRIA ICB - 00L",
            "NHS NORTH EAST AND NORTH CUMBRIA ICB - 01H",
            "NHS NORTH EAST AND NORTH CUMBRIA ICB - 13T",
            "NHS NORTH EAST AND NORTH CUMBRIA ICB - 16C",
            "NHS NORTH EAST AND NORTH CUMBRIA ICB - 99C",
            "NHS NORTH EAST AND NORTH CUMBRIA ICB - 00N",
            "ENGLAND"} |->
        CASE o = "NHS NORTH EAST AND NORTH CUMBRIA ICB - 84H" -> "Durham"
          [] o = "NHS NORTH EAST AND NORTH CUMBRIA ICB - 00P" -> "Sunderland"
          [] o = "NHS NORTH EAST AND NORTH CUMBRIA ICB - 00L" -> "Northumberland"
          [] o = "NHS NORTH EAST AND NORTH CUMBRIA ICB - 01H" -> "North Cumbria"
          [] o = "NHS NORTH EAST AND NORTH CUMBRIA ICB - 13T" -> "Newcastle-Gateshead"
          [] o = "NHS NORTH EAST AND NORTH CUMBRIA ICB - 16C" -> "Tees Valley"
          [] o = "NHS NORTH EAST AND NORTH CUMBRIA ICB - 99C" -> "North Tyneside"
          [] o = "NHS NORTH EAST AND NORTH CUMBRIA ICB - 00N" -> "South Tyneside"
          [] o = "ENGLAND" -> "England"]

\* Series.replace(mapping): a mapped identifier is substituted, any other
\* passes through unchanged
replace(o) ==
    IF o \in DOMAIN organisation_legend_mapping
    THEN organisation_legend_mapping[o] ELSE o

\* the organisation names of the model in Python's (code point) string order
OrgOrder ==
    <<"Durham", "ENGLAND", "England",
      "NHS NORTH EAST AND NORTH CUMBRIA ICB - 84H",
      "North East and North Cumbria", "ORG A", "ORG B">>

OrgRank(o) == CHOOSE i \in DOMAIN OrgOrder : OrgOrder[i] = o

(***************************************************************************)
(* Months: pd.to_datetime(format='%b-%y', errors='coerce') and             *)
(* Series.dt.strftime('%b-%y')                                             *)
(***************************************************************************)
MonthAbbr ==
    <<"Jan", "Feb", "Mar", "Apr", "May", "Jun",
      "Jul", "Aug", "Sep", "Oct", "Nov", "Dec">>

\* %y: 00..68 are 2000..2068 and 69..99 are 1969..1999
CenturyPivot == 68

to_datetime(raw) ==
    IF /\ \E m \in DOMAIN MonthAbbr : MonthAbbr[m] = raw[1]
       /\ raw[2] \in 0..99
    THEN LET m    == CHOOSE k \in DOMAIN MonthAbbr : MonthAbbr[k] = raw[1]
             year == IF raw[2] <= CenturyPivot THEN 2000 + raw[2] ELSE 1900 + raw[2]
         IN  year * 12 + (m - 1)
    ELSE NaT

strftime(d) == <<MonthAbbr[(d % 12) + 1], (d \div 12) % 100>>

(***************************************************************************)
(* Practice codes: Series.str.contains(r'\( ?[CD] ?\d', na=False)          *)
(***************************************************************************)
Digits == {"0", "1", "2", "3", "4", "5", "6", "7", "8", "9"}

\* the expression without its two '?': r'\( [CD] \d'
ClosedPattern_spaces_required ==
    << [chars |-> {"("},      opt |-> FALSE],
       [chars |-> {" "},      opt |-> FALSE],
       [chars |-> {"C", "D"}, opt |-> FALSE],
       [chars |-> {" "},      opt |-> FALSE],
       [chars |-> Digits,     opt |-> FALSE] >>

\* the regular expression, one element per atom: the characters the atom
\* accepts and whether it is followed by '?'
ClosedPattern ==
    << [chars |-> {"("},      opt |-> FALSE],
       [chars |-> {" "},      opt |-> TRUE],
       [chars |-> {"C", "D"}, opt |-> FALSE],
       [chars |-> {" "},      opt |-> TRUE],
       [chars |-> Digits,     opt |-> FALSE] >>

\* does pattern p from atom j on match s from position i on
RECURSIVE MatchAt(_, _, _, _)
MatchAt(s, i, p, j) ==
    IF j > Len(p) THEN TRUE
    ELSE \/ /\ i <= Len(s)
            /\ s[i] \in p[j].chars
            /\ MatchAt(s, i + 1, p, j + 1)
         \/ /\ p[j].opt
            /\ MatchAt(s, i, p, j + 1)

\* re.search semantics: a match at any position; a missing cell gives na=False
str_contains(s, p) ==
    IF s = NoCode THEN FALSE
    ELSE \E i \in 1..Len(s) : MatchAt(s, i, p, 1)

(***************************************************************************)
(* Data-frame operations used by the pipeline                              *)
(***************************************************************************)
\* the rows of s whose index is in the set keep, in the order of s
RECURSIVE Rows(_, _)
Rows(s, keep) ==
    IF s = <<>> THEN <<>>
    ELSE (IF Len(s) \in keep THEN Rows(SubSeq(s, 1, Len(s) - 1), keep) \o <<s[Len(s)]>>
          ELSE Rows(SubSeq(s, 1, Len(s) - 1), keep))

\* the rows of s with the group key k = <<organisation, month>>
Group(s, k) == Rows(s, {i \in DOMAIN s : s[i].Org = k[1] /\ s[i].Month = k[2]})

\* the group keys with dropna=False: a null month is a group key of its own
GroupKeys_keep_null(s) ==
    LET K == {<<s[i].Org, s[i].Month>> : i \in DOMAIN s}
    IN  SortSet(K, [k \in K |-> OrgRank(k[1]) * (12 * 2069) + k[2]])

\* the group keys of DataFrame.groupby(['Commissioner / Provider', 'Month']):
\* a row with a null key is in no group (dropna=True), and the groups come
\* out sorted by organisation, then month (sort=True)
GroupKeys(s) ==
    LET K == {<<s[i].Org, s[i].Month>> : i \in {j \in DOMAIN s : s[j].Month # NaT}}
    IN  SortSet(K, [k \in K |-> OrgRank(k[1]) * (12 * 2069) + k[2]])

\* the month abbreviations in string order
AbbrOrder ==
    <<"Apr", "Aug", "Dec", "Feb", "Jan", "Jul",
      "Jun", "Mar", "May", "Nov", "Oct", "Sep">>

\* the months sorted as their formatted 'Mon-YY' strings sort
MonthKeys_as_strings(s) ==
    LET M == {s[i].Month : i \in {j \in DOMAIN s : s[j].Month # NaT}}
    IN  SortSet(M, [m \in M |->
            (CHOOSE a \in DOMAIN AbbrOrder : AbbrOrder[a] = strftime(m)[1]) * 100
                + strftime(m)[2]])

\* the group keys of DataFrame.groupby('Month')
MonthKeys(s) ==
    LET M == {s[i].Month : i \in {j \in DOMAIN s : s[j].Month # NaT}}
    IN  SortSet(M, [m \in M |-> m])

\* round(n / d * 100, 2) in hundredths, for d # 0: numpy rounds to the
\* nearest hundredth, a tie to the even one
round_pct(n, d) ==
    LET q == (n * 10000) \div d
        r == (n * 10000) % d
    IN  IF 2 * r < d THEN q
        ELSE IF 2 * r > d THEN q + 1
        ELSE IF q % 2 = 0 THEN q ELSE q + 1

\* the ratio without the zero guard of np.where: 0 / 0 is NaN
percentage_unguarded(n, d) == IF d # 0 THEN round_pct(n, d) ELSE NaN

\* np.where(Denominator != 0, Numerator / Denominator * 100, 0).round(2)
percentage(n, d) == IF d # 0 THEN round_pct(n, d) ELSE 0

(***************************************************************************)
(* clean_local(df, pct_col)                                                *)
(***************************************************************************)
\* line 58-59: the rows that survive the practice-code filter
filter_closed(df) ==
    IF "Practice plus Code" \in df.columns
    THEN Rows(df.rows, {i \in DOMAIN df.rows :
                          ~ str_contains(df.rows[i].Practice, ClosedPattern)})
    ELSE df.rows

\* line 60-62: the dropped columns, the parsed Month and the replaced names
normalise_local(rows) ==
    [i \in DOMAIN rows |->
        [Org         |-> replace(rows[i].Org),
         Month       |-> to_datetime(rows[i].Month),
         Numerator   |-> rows[i].Numerator,
         Denominator |-> rows[i].Denominator]]

\* the rows with a month as they are, without the grouping
groupby_sum_ungrouped(rows) == Rows(rows, {i \in DOMAIN rows : rows[i].Month # NaT})

\* line 63: groupby(['Commissioner / Provider', 'Month'], as_index=False).sum()
groupby_sum(rows) ==
    LET keys == GroupKeys(rows)
    IN  [i \in DOMAIN keys |->
            [Org         |-> keys[i][1],
             Month       |-> keys[i][2],
             Numerator   |-> SumOver(Group(rows, keys[i]), "Numerator"),
             Denominator |-> SumOver(Group(rows, keys[i]), "Denominator")]]

\* the rollup taking each month's first organisation instead of the sum
icb_rows_first(df) ==
    LET months == MonthKeys(df)
    IN  [i \in DOMAIN months |->
            LET g == Rows(df, {j \in DOMAIN df : df[j].Month = months[i]})
            IN  [Org         |-> RollupName,
                 Month       |-> months[i],
                 Numerator   |-> g[1].Numerator,
                 Denominator |-> g[1].Denominator]]

\* line 64-66: the rollup rows, one per month of the grouped frame
icb_rows(df) ==
    LET months == MonthKeys(df)
    IN  [i \in DOMAIN months |->
            LET g == Rows(df, {j \in DOMAIN df : df[j].Month = months[i]})
            IN  [Org         |-> RollupName,
                 Month       |-> months[i],
                 Numerator   |-> SumOver(g, "Numerator"),
                 Denominator |-> SumOver(g, "Denominator")]]

\* line 57-68: the frame with its percentage column, before line 69 restricts it
clean_local_frame(df) ==
    LET grouped == groupby_sum(normalise_local(filter_closed(df)))
        both    == grouped \o icb_rows(grouped)
    IN  [i \in DOMAIN both |->
            [Org         |-> both[i].Org,
             Month       |-> both[i].Month,
             Numerator   |-> both[i].Numerator,
             Denominator |-> both[i].Denominator,
             Value       |-> percentage(both[i].Numerator, both[i].Denominator)]]

\* line 69: df[['Commissioner / Provider', 'Month', pct_col]]
restrict(frame) ==
    [i \in DOMAIN frame |->
        [Org |-> frame[i].Org, Month |-> frame[i].Month, Value |-> frame[i].Value]]

clean_local(df, pct_col) == [label |-> pct_col, rows |-> restrict(clean_local_frame(df))]

(***************************************************************************)
(* clean_national(df, pct_col)                                             *)
(***************************************************************************)
clean_national(df, pct_col) ==
    [label |-> pct_col,
     rows  |-> [i \in DOMAIN df.rows |->
                  [Org   |-> replace(df.rows[i].Country),
                   Month |-> to_datetime(df.rows[i].Month),
                   Value |-> df.rows[i].Value]]]

(***************************************************************************)
(* The main block, line 78-124                                             *)
(***************************************************************************)
\* every cleaned frame filed as a metric of its own, a shared label or not
setdefault_append_apart(am, cleaned) ==
    Append(am, [label |-> cleaned.label, df_list |-> <<cleaned.rows>>])

\* all_metrics.setdefault(label, []).append(cleaned); a dict keeps its keys
\* in insertion order
setdefault_append(am, cleaned) ==
    IF \E i \in DOMAIN am : am[i].label = cleaned.label
    THEN [i \in DOMAIN am |->
            IF am[i].label = cleaned.label
            THEN [am[i] EXCEPT !.df_list = Append(@, cleaned.rows)]
            ELSE am[i]]
    ELSE Append(am, [label |-> cleaned.label, df_list |-> <<cleaned.rows>>])

\* line 82-85 and 88-91: the loop body's setdefault/append over the cleaned
\* frames in file order, from metrics am
RECURSIVE collect(_, _)
collect(am, cleaned) ==
    IF cleaned = <<>> THEN am
    ELSE collect(setdefault_append(am, Head(cleaned)), Tail(cleaned))

\* zip(files, labels) stops at the shorter list
zip_len(files, labels) ==
    IF Len(files) <= Len(labels) THEN Len(files) ELSE Len(labels)

\* GroupBy.last() in the place of first(): the last non-null Value
first_as_last(g) ==
    IF \E i \in DOMAIN g : g[i].Value # NaN
    THEN g[CHOOSE i \in DOMAIN g :
              g[i].Value # NaN /\ \A j \in (i + 1)..Len(g) : g[j].Value = NaN].Value
    ELSE NaN

\* GroupBy.first(): the first non-null Value of the group, null if it has none
first(g) ==
    IF \E i \in DOMAIN g : g[i].Value # NaN
    THEN g[CHOOSE i \in DOMAIN g :
              g[i].Value # NaN /\ \A j \in 1..(i - 1) : g[j].Value = NaN].Value
    ELSE NaN

\* line 96-97: pd.concat(df_list).groupby([organisation, month]).first()
merge_metric(m) ==
    LET full_df == Concat(m.df_list)
        keys    == GroupKeys(full_df)
    IN  [label |-> m.label,
         rows  |-> [i \in DOMAIN keys |->
                      [Org   |-> keys[i][1],
                       Month |-> keys[i][2],
                       Value |-> first(Group(full_df, keys[i]))]]]

\* a per-label frame as a wide frame with the one metric column
wide(m) ==
    [columns |-> <<m.label>>,
     rows    |-> [i \in DOMAIN m.rows |->
                    [Org   |-> m.rows[i].Org,
                     Month |-> m.rows[i].Month,
                     vals  |-> [c \in {m.label} |-> m.rows[i].Value]]]]

\* the cell of column c in the row of frame f with key k, null without the row
Cell(f, k, c) ==
    IF \E i \in DOMAIN f.rows : <<f.rows[i].Org, f.rows[i].Month>> = k
    THEN f.rows[CHOOSE i \in DOMAIN f.rows :
                    <<f.rows[i].Org, f.rows[i].Month>> = k].vals[c]
    ELSE NaN

FrameKeys(f) == {<<f.rows[i].Org, f.rows[i].Month>> : i \in DOMAIN f.rows}

\* the join with how='inner': only the keys both sides hold
merge_inner(l, r) ==
    LET K    == FrameKeys(l) \cap FrameKeys(r)
        keys == SortSet(K, [k \in K |-> OrgRank(k[1]) * (12 * 2069) + k[2]])
    IN  [columns |-> l.columns \o r.columns,
         rows    |-> [i \in DOMAIN keys |->
                        [Org   |-> keys[i][1],
                         Month |-> keys[i][2],
                         vals  |-> [c \in Range(l.columns) \cup Range(r.columns) |->
                                      IF c \in Range(l.columns)
                                      THEN Cell(l, keys[i], c)
                                      ELSE Cell(r, keys[i], c)]]]]

\* pd.merge(l, r, on=[organisation, month], how='outer') of two frames whose
\* keys are unique (both come out of a groupby): one row per key of either
\* side, sorted by key, a side's columns null where that side lacks the key
merge_outer(l, r) ==
    LET K    == FrameKeys(l) \cup FrameKeys(r)
        keys == SortSet(K, [k \in K |-> OrgRank(k[1]) * (12 * 2069) + k[2]])
    IN  [columns |-> l.columns \o r.columns,
         rows    |-> [i \in DOMAIN keys |->
                        [Org   |-> keys[i][1],
                         Month |-> keys[i][2],
                         vals  |-> [c \in Range(l.columns) \cup Range(r.columns) |->
                                      IF c \in Range(l.columns)
                                      THEN Cell(l, keys[i], c)
                                      ELSE Cell(r, keys[i], c)]]]]

\* line 102: reduce(lambda l, r: pd.merge(l, r, ...), merged_dfs), for a
\* non-empty list
RECURSIVE reduce_merge(_, _)
reduce_merge(acc, rest) ==
    IF rest = <<>> THEN acc
    ELSE reduce_merge(merge_outer(acc, wide(Head(rest))), Tail(rest))

\* line 107: sort_values(by=['Month', 'Commissioner / Provider'])
sort_values(f) ==
    LET I     == DOMAIN f.rows
        order == SortSet(I, [i \in I |->
                    (f.rows[i].Month * (Len(OrgOrder) + 1) + OrgRank(f.rows[i].Org))
                        * (Len(f.rows) + 1) + i])
    IN  [f EXCEPT !.rows = [n \in DOMAIN order |-> f.rows[order[n]]]]

\* aggfunc='mean' over the values of one (month, organisation) group
mean(g) == SumOver(g, "Value") \div Len(g)

\* line 112-113: pivot_table(index='Month', columns=organisation, values=col)
\* with its defaults aggfunc='mean' and dropna=True, then reset_index() and
\* the Month column formatted.  Only rows with a value in col enter the
\* table, so its months and organisations are those with a value.
pivot_table(f, col) ==
    LET data   == [i \in DOMAIN f.rows |->
                     [Org   |-> f.rows[i].Org,
                      Month |-> f.rows[i].Month,
                      Value |-> f.rows[i].vals[col]]]
        valued == Rows(data, {i \in DOMAIN data : data[i].Value # NaN})
        months == MonthKeys(valued)
        O      == {valued[i].Org : i \in DOMAIN valued}
        orgs   == SortSet(O, [o \in O |-> OrgRank(o)])
    IN  [sheet   |-> col,
         columns |-> orgs,
         rows    |-> [i \in DOMAIN months |->
                        [Month |-> strftime(months[i]),
                         cells |-> [o \in O |->
                                      LET g == Group(valued, <<o, months[i]>>)
                                      IN  IF g = <<>> THEN NaN ELSE mean(g)]]]]

\* the labels of the model are shorter than 31 characters
sheet_name(label) == label

RequiredLocal == {"Commissioner / Provider", "Month", "Numerator", "Denominator"}

RequiredNational == {"Country", "Month", "Value"}

\* line 82-85; a file without a column the cleaning indexes raises KeyError
ProcessLocals ==
    /\ pc = "upload"
    /\ Len(local_files) = Len(local_labels)
    /\ Len(national_files) = Len(national_labels)
    /\ IF \A i \in DOMAIN local_files : RequiredLocal \subseteq local_files[i].columns
       THEN /\ local_frames' = [i \in DOMAIN local_files |->
                                   clean_local_frame(local_files[i])]
            /\ all_metrics' =
                 collect(<<>>, [i \in 1..zip_len(local_files, local_labels) |->
                                  clean_local(local_files[i], local_labels[i])])
            /\ pc' = "locals_done"
       ELSE /\ pc' = "raised"
            /\ UNCHANGED <<local_frames, all_metrics>>
    /\ UNCHANGED <<local_files, local_labels, national_files, national_labels,
                   merged_dfs, combined, pivots, output, shown>>

\* line 88-91
ProcessNationals ==
    /\ pc = "locals_done"
    /\ IF \A i \in DOMAIN national_files :
              RequiredNational \subseteq national_files[i].columns
       THEN /\ all_metrics' =
                 collect(all_metrics,
                         [i \in 1..zip_len(national_files, national_labels) |->
                            clean_national(national_files[i], national_labels[i])])
            /\ pc' = "nationals_done"
       ELSE /\ pc' = "raised"
            /\ UNCHANGED all_metrics
    /\ UNCHANGED <<local_files, local_labels, national_files, national_labels,
                   local_frames, merged_dfs, combined, pivots, output, shown>>

\* line 94-98
MergeMetrics ==
    /\ pc = "nationals_done"
    /\ merged_dfs' = [i \in DOMAIN all_metrics |-> merge_metric(all_metrics[i])]
    /\ pc' = "merged"
    /\ UNCHANGED <<local_files, local_labels, national_files, national_labels,
                   local_frames, all_metrics, combined, pivots, output, shown>>

\* line 101-105 without its st.stop(): the script goes on after the error
FinalMerge_without_stop ==
    /\ pc = "merged"
    /\ IF merged_dfs # <<>>
       THEN /\ combined' = reduce_merge(wide(Head(merged_dfs)), Tail(merged_dfs))
            /\ UNCHANGED shown
       ELSE /\ shown' = shown \cup {"error"}
            /\ UNCHANGED combined
    /\ pc' = "combined"
    /\ UNCHANGED <<local_files, local_labels, national_files, national_labels,
                   local_frames, all_metrics, merged_dfs, pivots, output>>

\* line 101-105: the reduce, or st.error and st.stop without a frame
FinalMerge ==
    /\ pc = "merged"
    /\ IF merged_dfs # <<>>
       THEN /\ combined' = reduce_merge(wide(Head(merged_dfs)), Tail(merged_dfs))
            /\ pc' = "combined"
            /\ UNCHANGED shown
       ELSE /\ shown' = shown \cup {"error"}
            /\ pc' = "stopped"
            /\ UNCHANGED combined
    /\ UNCHANGED <<local_files, local_labels, national_files, national_labels,
                   local_frames, all_metrics, merged_dfs, pivots, output>>

\* line 107
SortCombined ==
    /\ pc = "combined"
    /\ combined' = sort_values(combined)
    /\ pc' = "sorted"
    /\ UNCHANGED <<local_files, local_labels, national_files, national_labels,
                   local_frames, all_metrics, merged_dfs, pivots, output, shown>>

\* line 110-114
CreatePivots ==
    /\ pc = "sorted"
    /\ pivots' = [i \in DOMAIN combined.columns |->
                     pivot_table(combined, combined.columns[i])]
    /\ pc' = "pivoted"
    /\ UNCHANGED <<local_files, local_labels, national_files, national_labels,
                   local_frames, all_metrics, merged_dfs, combined, output, shown>>

\* line 117-124: one worksheet per pivot, then the success message and the
\* download button
WriteExcel ==
    /\ pc = "pivoted"
    /\ output' = <<[file_name |-> "overprescribing_charts.xlsx",
                    sheets    |-> [i \in DOMAIN pivots |->
                                     [pivots[i] EXCEPT !.sheet = sheet_name(@)]]]>>
    /\ shown' = shown \cup {"success", "download_button"}
    /\ pc' = "done"
    /\ UNCHANGED <<local_files, local_labels, national_files, national_labels,
                   local_frames, all_metrics, merged_dfs, combined, pivots>>

Next ==
    \/ ProcessLocals
    \/ ProcessNationals
    \/ MergeMetrics
    \/ FinalMerge
    \/ SortCombined
    \/ CreatePivots
    \/ WriteExcel

(***************************************************************************)
(* Uploads: the inputs of one run                                          *)
(***************************************************************************)
MaxRows == 2

MaxNational == 2

Jan24 == <<"Jan", 24>>

Feb24 == <<"Feb", 24>>

Dec99 == <<"Dec", 99>>

BadMonth == <<"January", 24>>

LocalColumns == RequiredLocal \cup {"Age Band"}

NationalColumns == RequiredNational \cup {"Comparator Description"}

\* the non-empty tables of at most n rows drawn from the set R
Tables(R, n) == UNION {[1..k -> R] : k \in 1..n}

\* the lists of at most n files drawn from the set F
Files(F, n) == UNION {[1..k -> F] : k \in 0..n}

LocalRow(codes, orgs, months, numdens) ==
    {[Practice |-> c, Org |-> o, Month |-> m, Numerator |-> nd[1], Denominator |-> nd[2]] :
        c \in codes, o \in orgs, m \in months, nd \in numdens}

NationalRow(countries, months, values) ==
    [Country : countries, Month : months, Value : values]

\* the state after the upload widgets and the label inputs, for one upload u
Uploaded(u) ==
    /\ local_files = [i \in DOMAIN u.locals |-> u.locals[i].file]
    /\ local_labels = [i \in DOMAIN u.locals |-> u.locals[i].label]
    /\ national_files = [i \in DOMAIN u.nationals |-> u.nationals[i].file]
    /\ national_labels = [i \in DOMAIN u.nationals |-> u.nationals[i].label]
    /\ local_frames = <<>>
    /\ all_metrics = <<>>
    /\ merged_dfs = <<>>
    /\ combined = [columns |-> <<>>, rows |-> <<>>]
    /\ pivots = <<>>
    /\ output = <<>>
    /\ shown = {}
    /\ pc = "upload"

\* practice codes, as they appear in the 'Practice plus Code' column
Codes ==
    { <<"A", " ", "(", " ", "C", "1", ")">>,
      <<"(", " ", "D", "4", ")">>,
      <<"(", "D", "2">>,
      <<"(", " ", "C", " ", "3">>,
      <<"(", " ", "c", "1">>,
      <<"(", " ", " ", "C", "1">>,
      <<"(", "A", "1", ")">>,
      <<"C", "1">>,
      <<"(", " ", "D">>,
      NoCode }

\* one local file, with and without the practice-code column
CodeUploads ==
    LET withCode == {[columns |-> LocalColumns \cup {"Practice plus Code"}, rows |-> t] :
                        t \in Tables(LocalRow(Codes, {"ORG A"}, {Jan24},
                                              {<<1, 2>>, <<2, 4>>}), MaxRows)}
        without  == {[columns |-> LocalColumns, rows |-> t] :
                        t \in Tables(LocalRow({NoCode}, {"ORG A"}, {Jan24},
                                              {<<1, 2>>, <<2, 4>>}), MaxRows)}
        F        == {[file |-> f, label |-> "Screening (%)"] : f \in withCode \cup without}
    IN  {[locals |-> l, nationals |-> <<>>] : l \in Files(F, 1)}

InitCode == \E u \in CodeUploads : Uploaded(u)

\* one local file without practice codes: organisations that collide after
\* canonicalisation or with the rollup name, parseable and malformed months
LocalUploads ==
    LET T == Tables(LocalRow({NoCode},
                             {"NHS NORTH EAST AND NORTH CUMBRIA ICB - 84H", "Durham",
                              RollupName},
                             {Jan24, Dec99, BadMonth},
                             {<<0, 0>>, <<1, 3>>, <<2, 3>>, <<3, 2>>}), MaxRows)
        F == {[file |-> [columns |-> LocalColumns, rows |-> t], label |-> "Metric 1 (%)"] :
                 t \in T}
    IN  {[locals |-> l, nationals |-> <<>>] : l \in Files(F, 1)}

InitLocal == \E u \in LocalUploads : Uploaded(u)

\* the local file of the merge and join uploads: one organisation, two months
FixedLocal ==
    [file  |-> [columns |-> LocalColumns,
                rows    |-> << [Practice |-> NoCode, Org |-> "ORG A", Month |-> Feb24,
                                Numerator |-> 1, Denominator |-> 2],
                              [Practice |-> NoCode, Org |-> "ORG A", Month |-> Jan24,
                                Numerator |-> 1, Denominator |-> 4] >>],
     label |-> "Screening (%)"]

\* single-row national files over the given countries, months, values, labels
SingleRowNational(countries, months, values, labels) ==
    {[file |-> [columns |-> NationalColumns, rows |-> <<r>>], label |-> lab] :
        r \in NationalRow(countries, months, values), lab \in labels}

\* at most one local file and national files that share its label, its
\* organisation and its month or not, with and without a value
MergeUploads ==
    LET N == SingleRowNational({"ENGLAND", "ORG A"}, {Jan24}, {NaN, 4250, 4000},
                               {"Screening (%)", "Metric 1 (%)"})
    IN  {[locals |-> l, nationals |-> n] :
            l \in Files({FixedLocal}, 1), n \in Files(N, MaxNational)}

InitMerge == \E u \in MergeUploads : Uploaded(u)

\* at most one local file and national files under three labels over three
\* months, so that the per-label tables differ in their keys
JoinUploads ==
    LET N == SingleRowNational({"ENGLAND", "ORG A"}, {Jan24, Feb24, Dec99}, {NaN, 4250},
                               {"Screening (%)", "Metric 1 (%)", "Metric 2 (%)"})
    IN  {[locals |-> l, nationals |-> n] :
            l \in Files({FixedLocal}, 1), n \in Files(N, MaxNational)}

InitJoin == \E u \in JoinUploads : Uploaded(u)

\* at most one local and one national file, with the same or another label,
\* with malformed months, repeated rows and a file without its Month column
RunUploads ==
    LET lrows == LocalRow({NoCode}, {"ORG A", "ORG B"}, {Jan24}, {<<50, 100>>})
                 \cup LocalRow({NoCode}, {"ORG A", "ORG B"}, {Feb24}, {<<60, 120>>})
                 \cup LocalRow({NoCode}, {"ORG A", "ORG B"}, {BadMonth}, {<<50, 100>>})
        L == {[file |-> [columns |-> LocalColumns, rows |-> t], label |-> "Screening (%)"] :
                 t \in Tables(lrows, MaxRows)}
             \cup {[file  |-> [columns |-> LocalColumns \ {"Month"},
                               rows    |-> <<CHOOSE r \in lrows : TRUE>>],
                    label |-> "Screening (%)"]}
        nrows == NationalRow({"ENGLAND"}, {Jan24, BadMonth}, {NaN, 4250})
        N == {[file |-> [columns |-> NationalColumns, rows |-> t], label |-> lab] :
                 t \in Tables(nrows, MaxRows),
                 lab \in {"Screening (%)", "Metric 1 (%)"}}
             \cup {[file  |-> [columns |-> NationalColumns \ {"Month"},
                               rows    |-> <<CHOOSE r \in nrows : TRUE>>],
                    label |-> "Screening (%)"]}
    IN  {[locals |-> l, nationals |-> n] : l \in Files(L, 1), n \in Files(N, 1)}

InitRun == \E u \in RunUploads : Uploaded(u)

\* at most one local and one national file whose organisations collide after
\* canonicalisation or with the rollup name, with repeated rows
KeyUploads ==
    LET L == {[file |-> [columns |-> LocalColumns, rows |-> t], label |-> "Screening (%)"] :
                 t \in Tables(LocalRow({NoCode},
                                       {"NHS NORTH EAST AND NORTH CUMBRIA ICB - 84H",
                                        "Durham", RollupName},
                                       {Jan24}, {<<1, 3>>}), MaxRows)}
        N == {[file |-> [columns |-> NationalColumns, rows |-> t], label |-> lab] :
                 t \in Tables(NationalRow({"ENGLAND", "England"}, {Jan24, BadMonth},
                                          {NaN, 4250}), MaxRows),
                 lab \in {"Screening (%)", "Metric 1 (%)"}}
    IN  {[locals |-> l, nationals |-> n] : l \in Files(L, 1), n \in Files(N, 1)}

InitKeys == \E u \in KeyUploads : Uploaded(u)

SpecCode == InitCode /\ [][Next]_vars

SpecLocal == InitLocal /\ [][Next]_vars

SpecMerge == InitMerge /\ [][Next]_vars

SpecJoin == InitJoin /\ [][Next]_vars

SpecRun == InitRun /\ [][Next]_vars

SpecKeys == InitKeys /\ [][Next]_vars

Init == InitRun

Spec == Init /\ [][Next]_vars

(***************************************************************************)
(* Properties                                                              *)
(***************************************************************************)
\* the local files have been cleaned
Cleaned == pc \notin {"upload", "raised"} \/ (pc = "raised" /\ local_frames # <<>>)

\* the raw rows of table rows whose parsed month is m
RawOfMonth(rows, m) == Rows(rows, {i \in DOMAIN rows : to_datetime(rows[i].Month) = m})

\* the raw rows of a local table for canonical organisation o and month m
LocalOf(rows, o, m) ==
    Rows(rows, {i \in DOMAIN rows :
                   replace(rows[i].Org) = o /\ to_datetime(rows[i].Month) = m})

\* v is n / d * 100 rounded to a nearest hundredth (v in hundredths), d # 0
NearestHundredth(v, n, d) ==
    LET diff == v * d - n * 10000
    IN  2 * (IF diff < 0 THEN 0 - diff ELSE diff) <= d

\* v is the percentage of n over d: the rounded ratio, or 0 when d is 0
IsPercentage(v, n, d) == IF d = 0 THEN v = 0 ELSE NearestHundredth(v, n, d)

\* the practice code s has, at some position, '(' ' ' then C or D then a digit
HasSpacedForm(s) ==
    \E i \in 1..Len(s) :
        /\ i + 3 <= Len(s)
        /\ s[i] = "("
        /\ s[i + 1] = " "
        /\ s[i + 2] \in {"C", "D"}
        /\ s[i + 3] \in Digits

\* the practice code s has, at some position, '(' then C or D then a digit,
\* with at most one space after the '(' and at most one before the digit
HasOptionalSpaceForm(s) ==
    \E i \in 1..Len(s) : \E a, b \in {0, 1} :
        /\ i + 2 + a + b <= Len(s)
        /\ s[i] = "("
        /\ a = 1 => s[i + 1] = " "
        /\ s[i + 1 + a] \in {"C", "D"}
        /\ b = 1 => s[i + 2 + a] = " "
        /\ s[i + 2 + a + b] \in Digits

\* the rows of a local file that stay when exactly the rows whose code has
\* the form Closed are excluded, and none is without the code column
Retained(df, Closed(_)) ==
    IF "Practice plus Code" \in df.columns
    THEN Rows(df.rows, {i \in DOMAIN df.rows : ~ Closed(df.rows[i].Practice)})
    ELSE df.rows

\* C1: for every local table and each month present in it, clean_local has a
\* row named 'North East and North Cumbria' whose Numerator and Denominator
\* are the sums over all (kept) rows of that month and whose percentage is
\* round(Numerator / Denominator * 100, 2), or 0 when the Denominator is 0.
C1_RollupIsMonthlySum ==
    Cleaned =>
        \A f \in DOMAIN local_frames :
            LET kept == Retained(local_files[f], HasOptionalSpaceForm)
            IN  \A m \in {to_datetime(kept[i].Month) : i \in DOMAIN kept} \ {NaT} :
                    LET n == SumOver(RawOfMonth(kept, m), "Numerator")
                        d == SumOver(RawOfMonth(kept, m), "Denominator")
                    IN  \E j \in DOMAIN local_frames[f] :
                            /\ local_frames[f][j].Org = RollupName
                            /\ local_frames[f][j].Month = m
                            /\ local_frames[f][j].Numerator = n
                            /\ local_frames[f][j].Denominator = d
                            /\ IsPercentage(local_frames[f][j].Value, n, d)

\* two organisations of one month, 1/3 and 2/3, roll up to 3/6 = 50.0
C1_Witness ==
    /\ pc = "locals_done"
    /\ Len(local_files) = 1
    /\ Len(local_files[1].rows) = 2
    /\ local_files[1].rows[1].Org = "Durham"
    /\ local_files[1].rows[2].Org = "NHS NORTH EAST AND NORTH CUMBRIA ICB - 84H"
    /\ \E j \in DOMAIN local_frames[1] :
          /\ local_frames[1][j].Org = RollupName
          /\ local_frames[1][j].Numerator = 3
          /\ local_frames[1][j].Denominator = 6
          /\ local_frames[1][j].Value = 5000

UniqueKeys(t) ==
    \A i, j \in DOMAIN t :
        (t[i].Org = t[j].Org /\ t[i].Month = t[j].Month) => i = j

\* the national files have been cleaned
NationalsCleaned ==
    pc \in {"nationals_done", "merged", "combined", "sorted", "pivoted", "done"}

\* the metric of label lab
MetricOf(lab) == all_metrics[CHOOSE a \in DOMAIN all_metrics : all_metrics[a].label = lab]

\* the cleaned table of local file f: the locals of a label come first in
\* the label's list, in upload order
LocalTable(f) ==
    MetricOf(local_labels[f]).df_list[
        Cardinality({i \in 1..f : local_labels[i] = local_labels[f]})]

\* the cleaned table of national file j
NationalTable(j) ==
    MetricOf(national_labels[j]).df_list[
        Cardinality({i \in DOMAIN local_labels : local_labels[i] = national_labels[j]})
        + Cardinality({i \in 1..j : national_labels[i] = national_labels[j]})]

SumsOverRetained(frame, df, Closed(_)) ==
    LET kept == Retained(df, Closed)
        all  == df.rows
    IN  /\ \A i \in DOMAIN all :
             LET o == replace(all[i].Org)
                 m == to_datetime(all[i].Month)
                 g == Rows(kept, {k \in DOMAIN kept :
                                    replace(kept[k].Org) = o
                                    /\ to_datetime(kept[k].Month) = m})
             IN  (m # NaT /\ o # RollupName) =>
                    IF g = <<>>
                    THEN \A j \in DOMAIN frame : ~(frame[j].Org = o /\ frame[j].Month = m)
                    ELSE \E j \in DOMAIN frame :
                            /\ frame[j].Org = o
                            /\ frame[j].Month = m
                            /\ frame[j].Numerator = SumOver(g, "Numerator")
                            /\ frame[j].Denominator = SumOver(g, "Denominator")
        /\ \A i \in DOMAIN all :
             LET m == to_datetime(all[i].Month)
                 g == RawOfMonth(kept, m)
             IN  m # NaT =>
                    IF g = <<>>
                    THEN \A j \in DOMAIN frame :
                            ~(frame[j].Org = RollupName /\ frame[j].Month = m)
                    ELSE \E j \in DOMAIN frame :
                            /\ frame[j].Org = RollupName
                            /\ frame[j].Month = m
                            /\ frame[j].Numerator = SumOver(g, "Numerator")
                            /\ frame[j].Denominator = SumOver(g, "Denominator")

Merged == pc \in {"merged", "combined", "sorted", "pivoted", "done", "stopped"}

HasKey(t, k) == \E r \in DOMAIN t : <<t[r].Org, t[r].Month>> = k

RowIndexes(dl) == UNION {DOMAIN dl[t] : t \in DOMAIN dl}

\* the keys with a month of the cleaned tables dl
KeysOf(dl) ==
    {<<dl[t][r].Org, dl[t][r].Month>> :
        <<t, r>> \in {x \in (DOMAIN dl) \X RowIndexes(dl) :
                         x[2] \in DOMAIN dl[x[1]] /\ dl[x[1]][x[2]].Month # NaT}}

\* the positions <<table, row>> of dl, among those in P, that come first
FirstOf(P) ==
    CHOOSE c \in P : \A e \in P : c[1] < e[1] \/ (c[1] = e[1] /\ c[2] <= e[2])

Positions(dl, k) ==
    {x \in (DOMAIN dl) \X RowIndexes(dl) :
        x[2] \in DOMAIN dl[x[1]] /\ <<dl[x[1]][x[2]].Org, dl[x[1]][x[2]].Month>> = k}

\* the one row of the merged rows md with key k holds value v
OneRowWith(md, k, v) ==
    /\ Cardinality({i \in DOMAIN md : <<md[i].Org, md[i].Month>> = k}) = 1
    /\ \E i \in DOMAIN md : <<md[i].Org, md[i].Month>> = k /\ md[i].Value = v

\* C2 as stated: when two cleaned tables of one label both hold a row for an
\* (organisation, month) key, the merged table holds exactly one row for it,
\* with the value of the table encountered first.
C2_FirstTableWins ==
    Merged =>
        \A a \in DOMAIN all_metrics :
            LET dl == all_metrics[a].df_list
            IN  \A k \in KeysOf(dl) :
                    Cardinality({t \in DOMAIN dl : HasKey(dl[t], k)}) >= 2 =>
                        LET c == FirstOf(Positions(dl, k))
                        IN  OneRowWith(merged_dfs[a].rows, k, dl[c[1]][c[2]].Value)

\* C2 amended: the merged table holds exactly one row for the key, with the
\* first non-empty value in encounter order (the first table's value unless
\* it is empty), empty only when every value for the key is empty; never a
\* sum or an average.
C2_FirstNonNullWins ==
    Merged =>
        \A a \in DOMAIN all_metrics :
            LET dl == all_metrics[a].df_list
            IN  \A k \in KeysOf(dl) :
                    Cardinality({t \in DOMAIN dl : HasKey(dl[t], k)}) >= 2 =>
                        LET P == {x \in Positions(dl, k) : dl[x[1]][x[2]].Value # NaN}
                        IN  IF P = {}
                            THEN OneRowWith(merged_dfs[a].rows, k, NaN)
                            ELSE OneRowWith(merged_dfs[a].rows, k,
                                            dl[FirstOf(P)[1]][FirstOf(P)[2]].Value)

\* the local 25.0 for (ORG A, Jan-24) meets a national 42.5 for the same key
\* and label, and the merged row holds 25.0
C2_Witness ==
    /\ pc = "merged"
    /\ \E a \in DOMAIN all_metrics :
          /\ Len(all_metrics[a].df_list) = 2
          /\ \E r \in DOMAIN all_metrics[a].df_list[1] :
                all_metrics[a].df_list[1][r] =
                    [Org |-> "ORG A", Month |-> to_datetime(Jan24), Value |-> 2500]
          /\ all_metrics[a].df_list[2] =
                <<[Org |-> "ORG A", Month |-> to_datetime(Jan24), Value |-> 4250]>>
          /\ OneRowWith(merged_dfs[a].rows, <<"ORG A", to_datetime(Jan24)>>, 2500)

\* the wide frame has been built
Combined == pc \in {"combined", "sorted", "pivoted", "done"}

\* the (organisation, month) keys of the rows t
RowKeys(t) == {<<t[i].Org, t[i].Month>> : i \in DOMAIN t}

\* C3: the frame of the pairwise outer join has as its keys exactly the union
\* of the keys of the N >= 1 per-label tables, one row per key, one column
\* per distinct label, and a metric is empty exactly for the keys its table
\* lacks; the join is reached whenever there is a table to join.
C3_OuterJoinIsUnionOfKeys ==
    /\ Combined =>
          /\ merged_dfs # <<>>
          /\ RowKeys(combined.rows) =
                UNION {RowKeys(merged_dfs[a].rows) : a \in DOMAIN merged_dfs}
          /\ Cardinality(RowKeys(combined.rows)) = Len(combined.rows)
          /\ combined.columns = [a \in DOMAIN merged_dfs |-> merged_dfs[a].label]
          /\ Cardinality(Range(combined.columns)) = Len(combined.columns)
          /\ \A i \in DOMAIN combined.rows : \A a \in DOMAIN merged_dfs :
                LET k == <<combined.rows[i].Org, combined.rows[i].Month>>
                    v == combined.rows[i].vals[merged_dfs[a].label]
                IN  IF k \in RowKeys(merged_dfs[a].rows)
                    THEN \E r \in DOMAIN merged_dfs[a].rows :
                            /\ <<merged_dfs[a].rows[r].Org, merged_dfs[a].rows[r].Month>> = k
                            /\ merged_dfs[a].rows[r].Value = v
                    ELSE v = NaN
    /\ pc = "stopped" => merged_dfs = <<>>

\* three labels whose tables have pairwise different keys: the joined frame
\* has a row that only the third table holds, empty in the first two columns
C3_Witness ==
    /\ pc = "combined"
    /\ Len(merged_dfs) = 3
    /\ \E i \in DOMAIN combined.rows :
          /\ <<combined.rows[i].Org, combined.rows[i].Month>>
                \notin RowKeys(merged_dfs[1].rows) \cup RowKeys(merged_dfs[2].rows)
          /\ combined.rows[i].vals[merged_dfs[1].label] = NaN
          /\ combined.rows[i].vals[merged_dfs[2].label] = NaN
          /\ combined.rows[i].vals[merged_dfs[3].label] = 4250
    /\ RowKeys(merged_dfs[1].rows) \ RowKeys(merged_dfs[3].rows) # {}

\* the pivot sheets have been built
Pivoted == pc \in {"pivoted", "done"}

\* pivot sheet pv of metric c has one row per month of the set M, ascending
\* by date, one column per organisation of the set O, and in each cell the
\* value of c in the row of frame f for that organisation and month, empty
\* where f has no such row or no value in it
SheetOver(pv, f, c, M, O) ==
    /\ {to_datetime(pv.rows[i].Month) : i \in DOMAIN pv.rows} = M
    /\ Len(pv.rows) = Cardinality(M)
    /\ \A i, j \in DOMAIN pv.rows :
          i < j => to_datetime(pv.rows[i].Month) < to_datetime(pv.rows[j].Month)
    /\ Range(pv.columns) = O
    /\ Len(pv.columns) = Cardinality(O)
    /\ \A i \in DOMAIN pv.rows :
          /\ DOMAIN pv.rows[i].cells = O
          /\ \A o \in O :
                LET k == <<o, to_datetime(pv.rows[i].Month)>>
                IN  IF k \in RowKeys(f.rows)
                    THEN \E r \in DOMAIN f.rows :
                            /\ <<f.rows[r].Org, f.rows[r].Month>> = k
                            /\ f.rows[r].vals[c] = pv.rows[i].cells[o]
                    ELSE pv.rows[i].cells[o] = NaN

\* C9 as stated: the sheet of every metric has one row for each distinct
\* month of the combined frame, ascending by date, and one column for each
\* distinct organisation of the combined frame, months and organisations
\* without any value for the metric included.
C9_SheetHasEveryMonthAndOrganisation ==
    Pivoted =>
        /\ Len(pivots) = Len(combined.columns)
        /\ \A p \in DOMAIN pivots :
              /\ pivots[p].sheet = combined.columns[p]
              /\ SheetOver(pivots[p], combined, combined.columns[p],
                           {combined.rows[i].Month : i \in DOMAIN combined.rows},
                           {combined.rows[i].Org : i \in DOMAIN combined.rows})

\* C9 amended: the sheet of a metric has one row for each month in which the
\* metric has a value for some organisation, ascending by date, and one
\* column for each organisation with a value of the metric in some month;
\* months and organisations without any value for the metric are left out.
C9_SheetHasValuedMonthsAndOrganisations ==
    Pivoted =>
        /\ Len(pivots) = Len(combined.columns)
        /\ \A p \in DOMAIN pivots :
              LET c == combined.columns[p]
                  V == {i \in DOMAIN combined.rows : combined.rows[i].vals[c] # NaN}
              IN  /\ pivots[p].sheet = c
                  /\ SheetOver(pivots[p], combined, c,
                               {combined.rows[i].Month : i \in V},
                               {combined.rows[i].Org : i \in V})

\* a sheet with Dec-99, Jan-24 and Feb-24 in this order (the strings sort as
\* Dec-99, Feb-24, Jan-24) beside a sheet of another metric without Feb-24
C9_Witness ==
    /\ pc = "pivoted"
    /\ \E p, q \in DOMAIN pivots :
          /\ Len(pivots[p].rows) = 3
          /\ pivots[p].rows[1].Month = Dec99
          /\ pivots[p].rows[2].Month = Jan24
          /\ pivots[p].rows[3].Month = Feb24
          /\ \A i \in DOMAIN pivots[q].rows : pivots[q].rows[i].Month # Feb24

\* the national rows with a value for canonical organisation o and month m
NationalOf(rows, o, m) ==
    Rows(rows, {i \in DOMAIN rows :
                   /\ replace(rows[i].Country) = o
                   /\ to_datetime(rows[i].Month) = m
                   /\ rows[i].Value # NaN})

\* v is the value of organisation o in month m when the local table lrows
\* and the national table nrows share a label: the organisation's local
\* percentage, else the rollup's, else the first national value, else empty
IsValueOf(v, lrows, nrows, o, m) ==
    IF LocalOf(lrows, o, m) # <<>>
    THEN IsPercentage(v, SumOver(LocalOf(lrows, o, m), "Numerator"),
                         SumOver(LocalOf(lrows, o, m), "Denominator"))
    ELSE IF o = RollupName /\ RawOfMonth(lrows, m) # <<>>
    THEN IsPercentage(v, SumOver(RawOfMonth(lrows, m), "Numerator"),
                         SumOver(RawOfMonth(lrows, m), "Denominator"))
    ELSE IF NationalOf(nrows, o, m) # <<>>
    THEN v = NationalOf(nrows, o, m)[1].Value
    ELSE v = NaN

\* the output has exactly one sheet for the label the one local file i and
\* the one national file j share, its columns are the organisations O and
\* its cells hold the organisations' values
OneSheetOver(i, j, O) ==
    LET S == {x \in DOMAIN output[1].sheets :
                 output[1].sheets[x].sheet = local_labels[i]}
    IN  /\ Cardinality(S) = 1
        /\ \A x \in S :
              LET sh == output[1].sheets[x]
              IN  /\ Range(sh.columns) = O
                  /\ Len(sh.columns) = Cardinality(O)
                  /\ \A r \in DOMAIN sh.rows : \A o \in O :
                        IsValueOf(sh.rows[r].cells[o], local_files[i].rows,
                                  national_files[j].rows, o,
                                  to_datetime(sh.rows[r].Month))

\* local file i and national file j are the only files with their label
SharedLabel(i, j) ==
    /\ local_labels[i] = national_labels[j]
    /\ \A x \in DOMAIN local_labels : local_labels[x] = local_labels[i] => x = i
    /\ \A x \in DOMAIN national_labels : national_labels[x] = local_labels[i] => x = j

\* C5 as stated: a local and a national file with the same label give exactly
\* one sheet for the label, with a column for every local organisation, for
\* the rollup and for every (canonicalised) national organisation, each cell
\* holding the organisation's value for the row's month or nothing.
C5_SheetHasEveryOrganisation ==
    pc = "done" =>
        \A i \in DOMAIN local_files : \A j \in DOMAIN national_files :
            SharedLabel(i, j) =>
                OneSheetOver(i, j,
                    {replace(local_files[i].rows[r].Org) : r \in DOMAIN local_files[i].rows}
                    \cup {RollupName}
                    \cup {replace(national_files[j].rows[r].Country) :
                             r \in DOMAIN national_files[j].rows})

\* C5 amended: the sheet has a column for every local organisation with a row
\* of a parseable month that the practice-code filter keeps, for the rollup
\* when the local file has such a row, and for every national organisation
\* with a non-empty value in a row of a parseable month.
C5_SheetHasEveryValuedOrganisation ==
    pc = "done" =>
        \A i \in DOMAIN local_files : \A j \in DOMAIN national_files :
            SharedLabel(i, j) =>
                LET kept == Retained(local_files[i], HasOptionalSpaceForm)
                    L    == {replace(kept[r].Org) :
                                r \in {x \in DOMAIN kept : to_datetime(kept[x].Month) # NaT}}
                    nat  == national_files[j].rows
                    N    == {replace(nat[r].Country) :
                                r \in {x \in DOMAIN nat :
                                          to_datetime(nat[x].Month) # NaT
                                          /\ nat[x].Value # NaN}}
                IN  OneSheetOver(i, j,
                        L \cup (IF L = {} THEN {} ELSE {RollupName}) \cup N)

\* the example: ORG A 50/100 in Jan-24 and 60/120 in Feb-24, ENGLAND 42.5 in
\* Jan-24, one sheet with 50.0 for ORG A and the rollup in both months and
\* England 42.5 in Jan-24 and empty in Feb-24
C5_Witness ==
    /\ pc = "done"
    /\ Len(local_files) = 1
    /\ Len(national_files) = 1
    /\ local_labels[1] = national_labels[1]
    /\ [i \in DOMAIN local_files[1].rows |->
           <<local_files[1].rows[i].Org, local_files[1].rows[i].Month,
             local_files[1].rows[i].Numerator, local_files[1].rows[i].Denominator>>]
          = << <<"ORG A", Jan24, 50, 100>>, <<"ORG A", Feb24, 60, 120>> >>
    /\ national_files[1].rows = <<[Country |-> "ENGLAND", Month |-> Jan24, Value |-> 4250]>>
    /\ Len(output[1].sheets) = 1
    /\ output[1].sheets[1].columns = <<"England", RollupName, "ORG A">>
    /\ output[1].sheets[1].rows =
          << [Month |-> Jan24,
              cells |-> [o \in {"England", RollupName, "ORG A"} |->
                           IF o = "England" THEN 4250 ELSE 5000]],
             [Month |-> Feb24,
              cells |-> [o \in {"England", RollupName, "ORG A"} |->
                           IF o = "England" THEN NaN ELSE 5000]] >>

\* C8: a run ends either with exactly one spreadsheet offered for download or
\* aborted without a spreadsheet; without any cleaned table it shows the
\* error and stops before a pivot or a spreadsheet exists; an error and a
\* spreadsheet are never both produced.
C8_OneSpreadsheetOrNone ==
    /\ ~ ("error" \in shown /\ (output # <<>> \/ "download_button" \in shown))
    /\ pc = "done" =>
          /\ Len(output) = 1
          /\ "download_button" \in shown
          /\ Len(output[1].sheets) = Len(all_metrics)
          /\ all_metrics # <<>>
    /\ pc # "done" => output = <<>> /\ "download_button" \notin shown
    /\ pc = "stopped" =>
          /\ "error" \in shown
          /\ local_files = <<>> /\ national_files = <<>>
          /\ pivots = <<>>
          /\ combined.rows = <<>> /\ combined.columns = <<>>
    /\ (local_files = <<>> /\ national_files = <<>>) =>
          pc \in {"upload", "locals_done", "nationals_done", "merged", "stopped"}
    /\ "error" \in shown => pc = "stopped"

\* the run without any file has shown the error and stopped
C8_Witness ==
    /\ pc = "stopped"
    /\ local_files = <<>>
    /\ national_files = <<>>
    /\ shown = {"error"}
    /\ output = <<>>

\* the files without their rows of a malformed month
WithoutMalformed(files) ==
    [i \in DOMAIN files |->
        [files[i] EXCEPT !.rows =
            Rows(@, {r \in DOMAIN @ : to_datetime(@[r].Month) # NaT})]]

\* the per-label frames the run merges from the given uploads
MergedOf(lf, ll, nf, nl) ==
    LET am == collect(collect(<<>>, [i \in DOMAIN lf |-> clean_local(lf[i], ll[i])]),
                      [i \in DOMAIN nf |-> clean_national(nf[i], nl[i])])
    IN  [a \in DOMAIN am |-> merge_metric(am[a])]

\* the sheets the run writes for the given uploads, when it has a frame
SheetsOf(lf, ll, nf, nl) ==
    LET md == MergedOf(lf, ll, nf, nl)
        c  == sort_values(reduce_merge(wide(Head(md)), Tail(md)))
    IN  [i \in DOMAIN c.columns |-> pivot_table(c, c.columns[i])]

\* the raw months of all uploaded rows that parse
ParseableMonths ==
    {m \in UNION ({{local_files[i].rows[r].Month : r \in DOMAIN local_files[i].rows} :
                      i \in DOMAIN local_files}
                  \cup {{national_files[i].rows[r].Month :
                            r \in DOMAIN national_files[i].rows} :
                           i \in DOMAIN national_files}) :
        to_datetime(m) # NaT}

\* C10: a row with a malformed Month, local or national, does not abort the
\* run, is in no organisation sum, no rollup sum and no output sheet, and
\* leaves every computed value as it is without the row.
C10_MalformedMonthRowsAreDropped ==
    /\ pc = "raised" =>
          \/ \E i \in DOMAIN local_files : ~ (RequiredLocal \subseteq local_files[i].columns)
          \/ \E i \in DOMAIN national_files :
                ~ (RequiredNational \subseteq national_files[i].columns)
    /\ Cleaned =>
          local_frames = [i \in DOMAIN local_files |->
                             clean_local_frame(WithoutMalformed(local_files)[i])]
    /\ Merged =>
          merged_dfs = MergedOf(WithoutMalformed(local_files), local_labels,
                                WithoutMalformed(national_files), national_labels)
    /\ Pivoted =>
          /\ pivots = SheetsOf(WithoutMalformed(local_files), local_labels,
                               WithoutMalformed(national_files), national_labels)
          /\ \A p \in DOMAIN pivots : \A r \in DOMAIN pivots[p].rows :
                pivots[p].rows[r].Month \in ParseableMonths
    /\ pc = "done" =>
          \A x \in DOMAIN output[1].sheets : \A r \in DOMAIN output[1].sheets[x].rows :
              output[1].sheets[x].rows[r].Month \in ParseableMonths

\* a finished run whose local and national file each hold a row with a
\* malformed month beside a row with a parseable month
C10_Witness ==
    /\ pc = "done"
    /\ Len(local_files) = 1
    /\ Len(national_files) = 1
    /\ \E r \in DOMAIN local_files[1].rows : local_files[1].rows[r].Month = BadMonth
    /\ \E r \in DOMAIN local_files[1].rows : local_files[1].rows[r].Month = Jan24
    /\ \E r \in DOMAIN national_files[1].rows :
          national_files[1].rows[r].Month = BadMonth /\ national_files[1].rows[r].Value = 4250
    /\ \E r \in DOMAIN national_files[1].rows :
          national_files[1].rows[r].Month = Jan24 /\ national_files[1].rows[r].Value = 4250
    /\ \A x \in DOMAIN output[1].sheets :
          Len(output[1].sheets[x].rows) = 1 /\ output[1].sheets[x].rows[1].Month = Jan24

====
